---- MODULE Spec2Model ----
(***************************************************************************)
(* Pathfinder_Visualizer: the Graph class and the dijkstra / astar         *)
(* searches of src/src/algorithms.py, driven the way src/app.py drives     *)
(* them: Graph.from_dict(data), then dijkstra(graph, start, end), then     *)
(* astar(graph, start, end, heuristic) on the same graph.                  *)
(*                                                                         *)
(* Numbers.  Edge weights and coordinates are integers.  A Python float    *)
(* that a search handles is either an integer, float('inf'), or an         *)
(* integer plus a Euclidean distance sqrt(r); the priority keys are kept   *)
(* as records [a, r] standing for a + sqrt(r) and compared exactly.        *)
(***************************************************************************)
EXTENDS Integers, Sequences, FiniteSets, TLC

(* ------------------------------ bounds -------------------------------- *)
\* largest edge weight of an input edge
MaxWeight == 2
\* largest coordinate of an input node
MaxCoord == 1
\* longest node list and longest edge list of an input of family 1
MaxListLen == 2
\* most edges of an input of family 3
MaxWideEdges == 5
\* largest total edge weight of an input of family 3
MaxWideTotal == 3
\* most calls a caller makes on a Graph directly
MaxCalls == 3

(* ------------------------------ values -------------------------------- *)
\* Python's None
None == "None"
\* the result slot of a search that has not been called
NotCalled == "NotCalled"
\* float('inf'): larger than every finite sum a search can form
inf == 1000000

\* node ids in Python's str order; "Z" is never a node of an input graph
IdOrder == <<"A", "B", "C", "D", "Z">>
Rank(id) == CHOOSE i \in 1..Len(IdOrder) : IdOrder[i] = id
\* str.__lt__ on ids
IdLess(a, b) == Rank(a) < Rank(b)

\* the float a + sqrt(r)
Real(a, r) == [a |-> a, r |-> r]
\* sqrt(p) < d + sqrt(q), decided in integers
SurdLess(p, q, d) ==
    IF d >= 0
    THEN LET m == p - d * d - q
         IN  IF m < 0 THEN TRUE ELSE m * m < 4 * d * d * q
    ELSE LET m == q - p - d * d
         IN  m > 0 /\ 4 * d * d * p < m * m
\* float.__lt__
FloatLess(x, y) == SurdLess(x.r, y.r, y.a - x.a)
\* float.__eq__
FloatEq(x, y) == ~FloatLess(x, y) /\ ~FloatLess(y, x)

\* tuple.__lt__ on (key, node id) pairs: the first differing component decides
\* (variant: the key alone decides, equal keys are left unordered)
TupleLessTiesUnordered(e1, e2) == FloatLess(e1[1], e2[1])
TupleLess(e1, e2) ==
    \/ FloatLess(e1[1], e2[1])
    \/ FloatEq(e1[1], e2[1]) /\ IdLess(e1[2], e2[2])

\* n ** 0.5 of a non-negative integer: exact when n is a perfect square
IsSquare(n) == \E k \in 0..n : k * k = n
Sqrt(n) == IF IsSquare(n) THEN Real(CHOOSE k \in 0..n : k * k = n, 0) ELSE Real(0, n)
Abs(n) == IF n < 0 THEN -n ELSE n

\* dict[key] = value
DictSet(d, k, v) == [x \in DOMAIN d \cup {k} |-> IF x = k THEN v ELSE d[x]]
EmptyDict == [x \in {} |-> None]

(* ------------------------------- heapq --------------------------------- *)
\* heap is a Python list (0-based position i is heap[i + 1])
RECURSIVE SiftDown(_, _, _, _)
SiftDown(heap, startpos, pos, newitem) ==
    IF pos > startpos
    THEN LET parentpos == (pos - 1) \div 2
             parent == heap[parentpos + 1]
         IN  IF TupleLess(newitem, parent)
             THEN SiftDown([heap EXCEPT ![pos + 1] = parent], startpos, parentpos, newitem)
             ELSE [heap EXCEPT ![pos + 1] = newitem]
    ELSE [heap EXCEPT ![pos + 1] = newitem]

RECURSIVE SiftUpLoop(_, _, _)
SiftUpLoop(heap, pos, newitem) ==
    LET endpos == Len(heap)
        childpos == 2 * pos + 1
    IN  IF childpos < endpos
        THEN LET rightpos == childpos + 1
                 c == IF rightpos < endpos
                         /\ ~TupleLess(heap[childpos + 1], heap[rightpos + 1])
                      THEN rightpos ELSE childpos
             IN  SiftUpLoop([heap EXCEPT ![pos + 1] = heap[c + 1]], c, newitem)
        ELSE <<heap, pos>>

SiftUp(heap, pos) ==
    LET newitem == heap[pos + 1]
        r == SiftUpLoop(heap, pos, newitem)
    IN  SiftDown(r[1], pos, r[2], newitem)

\* heapq.heappush(heap, item)
heappush(heap, item) == SiftDown(Append(heap, item), 0, Len(heap), item)

\* heapq.heappop(heap): <<the item returned, the heap left>>
heappop(heap) ==
    LET lastelt == heap[Len(heap)]
        rest == SubSeq(heap, 1, Len(heap) - 1)
    IN  IF rest = <<>>
        THEN <<lastelt, rest>>
        ELSE <<heap[1], SiftUp([rest EXCEPT ![1] = lastelt], 0)>>

(* ------------------------------- Graph --------------------------------- *)
\* a Graph object: its two dicts
NewGraph == [adjacency_list |-> EmptyDict, node_positions |-> EmptyDict]

\* Graph.add_node(node_id, x, y)
\* (variant: the arcs of the node are reset without the membership test)
add_node_resetting(g, node_id, x, y) ==
    [adjacency_list |-> DictSet(g.adjacency_list, node_id, <<>>),
     node_positions |-> DictSet(g.node_positions, node_id, <<x, y>>)]
add_node(g, node_id, x, y) ==
    [adjacency_list |->
        IF node_id \notin DOMAIN g.adjacency_list
        THEN DictSet(g.adjacency_list, node_id, <<>>)
        ELSE g.adjacency_list,
     node_positions |-> DictSet(g.node_positions, node_id, <<x, y>>)]

\* Graph.add_edge(from_node, to_node, weight, bidirectional)
\* (variant: the bidirectional flag is ignored, only the forward arc is stored)
add_edge_one_way(g, from_node, to_node, weight, bidirectional) ==
    LET g1 == IF from_node \notin DOMAIN g.adjacency_list
              THEN add_node(g, from_node, 0, 0) ELSE g
        g2 == IF to_node \notin DOMAIN g1.adjacency_list
              THEN add_node(g1, to_node, 0, 0) ELSE g1
    IN  [adjacency_list |-> [g2.adjacency_list EXCEPT
                                ![from_node] = Append(@, <<to_node, weight>>)],
         node_positions |-> g2.node_positions]
\* (variant: a missing to_node is never created)
add_edge_from_only(g, from_node, to_node, weight, bidirectional) ==
    LET g1 == IF from_node \notin DOMAIN g.adjacency_list
              THEN add_node(g, from_node, 0, 0) ELSE g
        a1 == [g1.adjacency_list EXCEPT
                  ![from_node] = Append(@, <<to_node, weight>>)]
        a2 == IF bidirectional /\ to_node \in DOMAIN a1
              THEN [a1 EXCEPT ![to_node] = Append(@, <<from_node, weight>>)]
              ELSE a1
    IN  [adjacency_list |-> a2, node_positions |-> g1.node_positions]
add_edge(g, from_node, to_node, weight, bidirectional) ==
    LET g1 == IF from_node \notin DOMAIN g.adjacency_list
              THEN add_node(g, from_node, 0, 0) ELSE g
        g2 == IF to_node \notin DOMAIN g1.adjacency_list
              THEN add_node(g1, to_node, 0, 0) ELSE g1
        a1 == [g2.adjacency_list EXCEPT
                  ![from_node] = Append(@, <<to_node, weight>>)]
        a2 == IF bidirectional
              THEN [a1 EXCEPT ![to_node] = Append(@, <<from_node, weight>>)]
              ELSE a1
    IN  [adjacency_list |-> a2, node_positions |-> g2.node_positions]

\* Graph.get_neighbors(node_id): adjacency_list.get(node_id, [])
get_neighbors(adj, node_id) ==
    IF node_id \in DOMAIN adj THEN adj[node_id] ELSE <<>>

\* adjacency_list once get_neighbors(node_id) has returned: dict.get stores
\* nothing and removes nothing
\* (variant: dict.pop in the place of dict.get)
AfterGetNeighborsPop(adj, node_id) == [n \in DOMAIN adj \ {node_id} |-> adj[n]]
AfterGetNeighbors(adj, node_id) == adj

\* Graph.get_nodes()
get_nodes(adj) == DOMAIN adj

\* dict.get(key, default)
Get(d, k, default) == IF k \in DOMAIN d THEN d[k] ELSE default

\* the value raised by a subscript with a missing key
KeyError == "KeyError"

\* a node item of the input: a dict is a function on its keys ('id', 'x',
\* 'y'); an item that is no dict is a bare id, kept as [bare |-> id]
IsDict(item) == "bare" \notin DOMAIN item
\* str(node) of a bare id
Str(item) == item["bare"]

\* the outcome of a call that returns a value or raises
Returned(v) == [raised |-> None, value |-> v]
Raised(e) == [raised |-> e, value |-> None]

\* the first loop of Graph.from_dict, over data.get('nodes', [])
RECURSIVE FromDictNodes(_, _)
FromDictNodes(g, nodes) ==
    IF nodes = <<>> THEN Returned(g)
    ELSE LET node == Head(nodes)
         IN  IF IsDict(node)
             THEN IF "id" \notin DOMAIN node THEN Raised(KeyError)
                  ELSE FromDictNodes(
                           add_node(g, node["id"], Get(node, "x", 0), Get(node, "y", 0)),
                           Tail(nodes))
             ELSE FromDictNodes(add_node(g, Str(node), 0, 0), Tail(nodes))

\* (variant of the second loop: an edge that lacks 'from' or 'to' is skipped)
RECURSIVE FromDictEdgesSkipping(_, _)
FromDictEdgesSkipping(g, edges) ==
    IF edges = <<>> THEN Returned(g)
    ELSE LET edge == Head(edges)
         IN  IF "from" \notin DOMAIN edge \/ "to" \notin DOMAIN edge
             THEN FromDictEdgesSkipping(g, Tail(edges))
             ELSE FromDictEdgesSkipping(
                      add_edge(g, edge["from"], edge["to"],
                               Get(edge, "weight", 1), Get(edge, "bidirectional", TRUE)),
                      Tail(edges))

\* the second loop of Graph.from_dict, over data.get('edges', [])
RECURSIVE FromDictEdges(_, _)
FromDictEdges(g, edges) ==
    IF edges = <<>> THEN Returned(g)
    ELSE LET edge == Head(edges)
         IN  IF "from" \notin DOMAIN edge \/ "to" \notin DOMAIN edge
             THEN Raised(KeyError)
             ELSE FromDictEdges(
                      add_edge(g, edge["from"], edge["to"],
                               Get(edge, "weight", 1), Get(edge, "bidirectional", TRUE)),
                      Tail(edges))

\* Graph.from_dict(data): the Graph built, or KeyError raised
from_dict(d) ==
    LET r == FromDictNodes(NewGraph, Get(d, "nodes", <<>>))
    IN  IF r.raised # None THEN r
        ELSE FromDictEdges(r.value, Get(d, "edges", <<>>))

(* ----------------------------- heuristics ------------------------------ *)
\* euclidean_heuristic(graph, node, goal)
euclidean_heuristic(pos, node, goal) ==
    IF node \notin DOMAIN pos \/ goal \notin DOMAIN pos THEN Real(0, 0)
    ELSE LET dx == pos[goal][1] - pos[node][1]
             dy == pos[goal][2] - pos[node][2]
         IN  Sqrt(dx * dx + dy * dy)

\* manhattan_heuristic(graph, node, goal)
manhattan_heuristic(pos, node, goal) ==
    IF node \notin DOMAIN pos \/ goal \notin DOMAIN pos THEN Real(0, 0)
    ELSE Real(Abs(pos[goal][1] - pos[node][1]) + Abs(pos[goal][2] - pos[node][2]), 0)

\* heuristic_fn, as astar selects it from the tag
heuristic_fn(tag, pos, node, goal) ==
    IF tag = "manhattan" THEN manhattan_heuristic(pos, node, goal)
    ELSE euclidean_heuristic(pos, node, goal)

\* an integer plus a float
Plus(g, h) == Real(g + h.a, h.r)

(* ------------------------------ results -------------------------------- *)
\* a PathResult (execution_time_ms, a wall-clock reading, is left out)
PathResult(path, distance, explored, algorithm) ==
    [kind |-> "PathResult", path |-> path, distance |-> distance,
     nodes_explored |-> explored, algorithm |-> algorithm]
\* a search that returned None
NoResult == [kind |-> None]
\* a search that was not called
Pending == [kind |-> NotCalled]

\* the backward walk over the predecessor links (path.append, then
\* path.reverse()): the path; KeyError when a link leaves the table; Diverged
\* when the links never reach None
Diverged == "Diverged"
RECURSIVE Walk(_, _, _, _)
Walk(prev, current, path, fuel) ==
    IF current = None THEN Returned(path)
    ELSE IF fuel = 0 THEN Raised(Diverged)
    ELSE IF current \notin DOMAIN prev THEN Raised(KeyError)
    ELSE Walk(prev, prev[current], <<current>> \o path, fuel - 1)

\* (variant: the walk without path.reverse(), from end back to start)
ReconstructUnreversed(prev, target) ==
    LET w == Walk(prev, target, <<>>, Cardinality(DOMAIN prev) + 1)
    IN  IF w.raised # None THEN w
        ELSE Returned([i \in 1..Len(w.value) |-> w.value[Len(w.value) + 1 - i]])
Reconstruct(prev, target) == Walk(prev, target, <<>>, Cardinality(DOMAIN prev) + 1)

(* ------------------------------- state --------------------------------- *)
VARIABLES
    data,             \* the request's 'graph' object
    start, end,       \* the request's 'start' and 'end'
    pc,               \* where the request is
    raised,           \* the exception that ended the request, or None
    adjacency_list,   \* Graph.adjacency_list of the graph built
    node_positions,   \* Graph.node_positions of the graph built
    distances,        \* dijkstra: best-known distances
    priority_queue,   \* dijkstra: the heap
    visited,          \* dijkstra: finalized nodes
    previous,         \* dijkstra / astar: predecessor links
    nodes_explored,   \* dijkstra / astar: the counter
    popped,           \* dijkstra / astar: the entry the last heappop returned
    heuristic,        \* astar: the tag passed
    g_score, f_score, \* astar: the score tables
    open_set,         \* astar: the heap
    open_set_hash,    \* astar: open-set membership
    closed_set,       \* astar: expanded nodes
    dijkstra_result,  \* what dijkstra returned
    astar_result,     \* what astar returned
    calls             \* the calls a caller has made on the Graph directly

inputVars == <<data, start, end, calls>>
graphVars == <<adjacency_list, node_positions>>
dijkstraVars == <<distances, priority_queue, visited>>
astarVars == <<heuristic, g_score, f_score, open_set, open_set_hash, closed_set>>
vars == <<data, start, end, pc, raised, adjacency_list, node_positions, distances,
          priority_queue, visited, previous, nodes_explored, popped, heuristic,
          g_score, f_score, open_set, open_set_hash, closed_set, dijkstra_result,
          astar_result, calls>>

(* ------------------------------ dijkstra ------------------------------- *)
\* the guard of both searches: start or end is no key of adjacency_list
\* (variant: the membership test left out)
AbsentCheckDropped(adj, s, e) == FALSE
Absent(adj, s, e) == s \notin DOMAIN adj \/ e \notin DOMAIN adj

\* the relaxation test of both searches: the new cost beats the best known
\* (variant: only a node with no cost yet is updated)
ImprovesOnlyUnset(cost, best) == best = inf
\* (variant: <= in the place of <, an equal cost replaces the predecessor)
ImprovesOrEqual(cost, best) == cost <= best
Improves(cost, best) == cost < best

\* the for loop of dijkstra over get_neighbors(current_node)
RECURSIVE DijkstraRelax(_, _, _, _)
DijkstraRelax(nbrs, current_node, current_distance, t) ==
    IF nbrs = <<>> THEN t
    ELSE LET neighbor == Head(nbrs)[1]
             weight == Head(nbrs)[2]
             distance == current_distance + weight
         IN  IF Improves(distance, t.distances[neighbor])
             THEN DijkstraRelax(Tail(nbrs), current_node, current_distance,
                      [distances |-> [t.distances EXCEPT ![neighbor] = distance],
                       previous |-> [t.previous EXCEPT ![neighbor] = current_node],
                       priority_queue |->
                           heappush(t.priority_queue, <<Real(distance, 0), neighbor>>)])
             ELSE DijkstraRelax(Tail(nbrs), current_node, current_distance, t)

\* dijkstra(graph, start, end) up to the while loop
DijkstraCall ==
    /\ pc = "dijkstra"
    /\ IF Absent(adjacency_list, start, end)
       THEN /\ dijkstra_result' = NoResult
            /\ pc' = "astar"
            /\ UNCHANGED <<dijkstraVars, previous, nodes_explored>>
       ELSE /\ distances' = DictSet([node \in DOMAIN adjacency_list |-> inf], start, 0)
            /\ previous' = [node \in DOMAIN adjacency_list |-> None]
            /\ priority_queue' = <<<<Real(0, 0), start>>>>
            /\ visited' = {}
            /\ nodes_explored' = 0
            /\ pc' = "dijkstra_loop"
            /\ UNCHANGED dijkstra_result
    /\ UNCHANGED <<inputVars, graphVars, raised, popped, astarVars, astar_result>>

\* if current_node in visited
\* (variant: the test is dropped, a second entry of a node is processed again)
FinalizedNever(current_node, done) == FALSE
Finalized(current_node, done) == current_node \in done

\* if current_node == end
\* (variant: the early exit is dropped, the loop runs until the queue is empty)
IsTargetNever(current_node, target) == FALSE
IsTarget(current_node, target) == current_node = target

\* one iteration of dijkstra's while loop
DijkstraIteration ==
    /\ pc = "dijkstra_loop"
    /\ priority_queue # <<>>
    /\ LET p == heappop(priority_queue)
           current_distance == p[1][1].a
           current_node == p[1][2]
       IN  /\ popped' = p[1]
           /\ IF Finalized(current_node, visited)
              THEN /\ priority_queue' = p[2]
                   /\ UNCHANGED <<visited, nodes_explored, distances, previous, pc,
                                  adjacency_list>>
              ELSE /\ visited' = visited \cup {current_node}
                   /\ nodes_explored' = nodes_explored + 1
                   /\ IF IsTarget(current_node, end)
                      THEN /\ pc' = "dijkstra_exit"
                           /\ priority_queue' = p[2]
                           /\ UNCHANGED <<distances, previous, adjacency_list>>
                      ELSE IF current_distance > distances[current_node]
                      THEN /\ priority_queue' = p[2]
                           /\ UNCHANGED <<distances, previous, pc, adjacency_list>>
                      ELSE LET t == DijkstraRelax(
                                        get_neighbors(adjacency_list, current_node),
                                        current_node, current_distance,
                                        [distances |-> distances, previous |-> previous,
                                         priority_queue |-> p[2]])
                           IN  /\ distances' = t.distances
                               /\ previous' = t.previous
                               /\ priority_queue' = t.priority_queue
                               /\ adjacency_list' =
                                      AfterGetNeighbors(adjacency_list, current_node)
                               /\ UNCHANGED pc
    /\ UNCHANGED <<inputVars, node_positions, raised, astarVars, dijkstra_result,
                   astar_result>>

\* dijkstra after the loop: the no-path test, the walk back, the PathResult
DijkstraReturn ==
    /\ \/ pc = "dijkstra_exit"
       \/ pc = "dijkstra_loop" /\ priority_queue = <<>>
    /\ IF end \notin DOMAIN distances
       THEN /\ raised' = KeyError
            /\ pc' = "error"
            /\ UNCHANGED dijkstra_result
       ELSE IF distances[end] = inf
       THEN /\ dijkstra_result' = NoResult
            /\ pc' = "astar"
            /\ UNCHANGED raised
       ELSE LET w == Reconstruct(previous, end)
            IN  IF w.raised # None
                THEN /\ raised' = w.raised
                     /\ pc' = "error"
                     /\ UNCHANGED dijkstra_result
                ELSE /\ dijkstra_result' =
                            PathResult(w.value, distances[end], nodes_explored, "dijkstra")
                     /\ pc' = "astar"
                     /\ UNCHANGED raised
    /\ UNCHANGED <<inputVars, graphVars, dijkstraVars, previous, nodes_explored, popped,
                   astarVars, astar_result>>

(* -------------------------------- astar -------------------------------- *)
\* the heuristic tags a caller may pass; app.py admits the first two
ValidHeuristics == {"euclidean", "manhattan"}
Heuristics == ValidHeuristics \cup {"random"}

\* astar's test for pushing a relaxed neighbour
\* (variant: the membership test negated)
ShouldPushInverted(neighbor, hash) == neighbor \in hash
\* (variant: an entry is pushed on every improvement)
ShouldPushAlways(neighbor, hash) == TRUE
ShouldPush(neighbor, hash) == neighbor \notin hash

\* the for loop of astar over get_neighbors(current)
RECURSIVE AstarRelax(_, _, _, _, _)
AstarRelax(nbrs, current, closed, pos, t) ==
    IF nbrs = <<>> THEN t
    ELSE LET neighbor == Head(nbrs)[1]
             weight == Head(nbrs)[2]
             tentative_g == t.g_score[current] + weight
         IN  IF neighbor \in closed
             THEN AstarRelax(Tail(nbrs), current, closed, pos, t)
             ELSE IF Improves(tentative_g, t.g_score[neighbor])
             THEN LET f == Plus(tentative_g, heuristic_fn(heuristic, pos, neighbor, end))
                      push == ShouldPush(neighbor, t.open_set_hash)
                  IN  AstarRelax(Tail(nbrs), current, closed, pos,
                          [previous |-> [t.previous EXCEPT ![neighbor] = current],
                           g_score |-> [t.g_score EXCEPT ![neighbor] = tentative_g],
                           f_score |-> [t.f_score EXCEPT ![neighbor] = f],
                           open_set |-> IF push
                                        THEN heappush(t.open_set, <<f, neighbor>>)
                                        ELSE t.open_set,
                           open_set_hash |-> IF push
                                             THEN t.open_set_hash \cup {neighbor}
                                             ELSE t.open_set_hash])
             ELSE AstarRelax(Tail(nbrs), current, closed, pos, t)

\* astar(graph, start, end, heuristic) up to the while loop
AstarCall ==
    /\ pc = "astar"
    /\ \E h \in Heuristics :
        /\ heuristic' = h
        /\ IF Absent(adjacency_list, start, end)
           THEN /\ astar_result' = NoResult
                /\ pc' = "done"
                /\ UNCHANGED <<g_score, f_score, open_set, open_set_hash, closed_set,
                               previous, nodes_explored>>
           ELSE LET f0 == heuristic_fn(h, node_positions, start, end)
                IN  /\ g_score' = DictSet([node \in DOMAIN adjacency_list |-> inf], start, 0)
                    /\ f_score' = DictSet([node \in DOMAIN adjacency_list |-> Real(inf, 0)],
                                          start, f0)
                    /\ previous' = [node \in DOMAIN adjacency_list |-> None]
                    /\ open_set' = <<<<f0, start>>>>
                    /\ open_set_hash' = {start}
                    /\ closed_set' = {}
                    /\ nodes_explored' = 0
                    /\ pc' = "astar_loop"
                    /\ UNCHANGED astar_result
    /\ UNCHANGED <<inputVars, graphVars, raised, dijkstraVars, popped, dijkstra_result>>

\* one iteration of astar's while loop
AstarIteration ==
    /\ pc = "astar_loop"
    /\ open_set # <<>>
    /\ LET p == heappop(open_set)
           current == p[1][2]
       IN  /\ popped' = p[1]
           /\ IF current \notin open_set_hash
              THEN /\ open_set' = p[2]
                   /\ UNCHANGED <<open_set_hash, closed_set, nodes_explored, previous,
                                  g_score, f_score, pc, raised, astar_result,
                                  adjacency_list>>
              ELSE IF current = end
              THEN LET w == Reconstruct(previous, current)
                   IN  /\ open_set' = p[2]
                       /\ open_set_hash' = open_set_hash \ {current}
                       /\ nodes_explored' = nodes_explored + 1
                       /\ UNCHANGED <<closed_set, previous, g_score, f_score,
                                      adjacency_list>>
                       /\ IF w.raised # None
                          THEN /\ raised' = w.raised
                               /\ pc' = "error"
                               /\ UNCHANGED astar_result
                          ELSE /\ astar_result' =
                                      PathResult(w.value, g_score[end], nodes_explored + 1,
                                                 "astar_" \o heuristic)
                               /\ pc' = "done"
                               /\ UNCHANGED raised
              ELSE LET closed == closed_set \cup {current}
                       t == AstarRelax(get_neighbors(adjacency_list, current), current,
                                       closed, node_positions,
                                       [previous |-> previous, g_score |-> g_score,
                                        f_score |-> f_score, open_set |-> p[2],
                                        open_set_hash |-> open_set_hash \ {current}])
                   IN  /\ closed_set' = closed
                       /\ nodes_explored' = nodes_explored + 1
                       /\ previous' = t.previous
                       /\ g_score' = t.g_score
                       /\ f_score' = t.f_score
                       /\ open_set' = t.open_set
                       /\ open_set_hash' = t.open_set_hash
                       /\ adjacency_list' = AfterGetNeighbors(adjacency_list, current)
                       /\ UNCHANGED <<pc, raised, astar_result>>
    /\ UNCHANGED <<inputVars, node_positions, dijkstraVars, heuristic, dijkstra_result>>

\* astar's final return None: the frontier is exhausted
AstarExhausted ==
    /\ pc = "astar_loop"
    /\ open_set = <<>>
    /\ astar_result' = NoResult
    /\ pc' = "done"
    /\ UNCHANGED <<inputVars, graphVars, raised, dijkstraVars, previous, nodes_explored,
                   popped, astarVars, dijkstra_result>>

(* ------------------------------- request ------------------------------- *)
\* graph = Graph.from_dict(data['graph']) of a request handler of app.py; an
\* exception ends the request before any search
FromDict ==
    /\ pc = "from_dict"
    /\ LET r == from_dict(data)
       IN  IF r.raised # None
           THEN /\ raised' = r.raised
                /\ pc' = "error"
                /\ UNCHANGED graphVars
           ELSE /\ adjacency_list' = r.value.adjacency_list
                /\ node_positions' = r.value.node_positions
                /\ pc' = "dijkstra"
                /\ UNCHANGED raised
    /\ UNCHANGED <<inputVars, dijkstraVars, previous, nodes_explored, popped, astarVars,
                   dijkstra_result, astar_result>>

(* -------------------------------- inputs ------------------------------- *)
Coords == 0..MaxCoord
Weights == 0..MaxWeight
SeqsUpTo(S, n) == UNION {[1..k -> S] : k \in 0..n}

\* the 'graph' object: a key whose list is Missing is left out of the dict
Missing == <<[missing |-> TRUE]>>
GraphObject(nodes, edges) ==
    IF nodes = Missing /\ edges = Missing THEN EmptyDict
    ELSE IF nodes = Missing THEN [edges |-> edges]
    ELSE IF edges = Missing THEN [nodes |-> nodes]
    ELSE [nodes |-> nodes, edges |-> edges]

\* family 1, the shapes from_dict accepts or rejects: bare ids, dicts with and
\* without coordinates, a node given twice, default weight and direction,
\* items that lack a required key, lists that are absent
ShapeNodeItems ==
    { [bare |-> "A"],
      [id |-> "B"],
      [id |-> "B", x |-> MaxCoord],
      [id |-> "A", x |-> MaxCoord, y |-> MaxCoord],
      [x |-> 0, y |-> 0] }
ShapeEdgeItems ==
    { [from |-> "A", to |-> "B"],
      [from |-> "B", to |-> "C", weight |-> MaxWeight, bidirectional |-> FALSE],
      [from |-> "C", to |-> "A", weight |-> 0],
      [to |-> "B", weight |-> 1],
      [from |-> "A", weight |-> 1] }
ShapeEnds == {"A", "C", "Z"}
InitShapes ==
    \E nodes \in SeqsUpTo(ShapeNodeItems, MaxListLen) \cup {Missing},
       edges \in SeqsUpTo(ShapeEdgeItems, MaxListLen) \cup {Missing},
       s \in ShapeEnds, e \in ShapeEnds :
        /\ data = GraphObject(nodes, edges)
        /\ start = s
        /\ end = e

\* an edge list picked pair by pair: choice[i] is the item for pairs[i] or NoEdge
NoEdge == [absent |-> TRUE]
RECURSIVE EdgeList(_, _)
EdgeList(choice, i) ==
    IF i > Len(choice) THEN <<>>
    ELSE (IF choice[i] = NoEdge THEN <<>> ELSE <<choice[i]>>) \o EdgeList(choice, i + 1)
EdgeCount(choice) == Cardinality({i \in DOMAIN choice : choice[i] # NoEdge})
RECURSIVE TotalWeight(_, _)
TotalWeight(choice, i) ==
    IF i > Len(choice) THEN 0
    ELSE (IF choice[i] = NoEdge THEN 0 ELSE choice[i]["weight"]) + TotalWeight(choice, i + 1)

\* family 2, three placed nodes: "A" at the origin, "B" and "C" anywhere on the
\* grid; between each pair no edge, a two-way edge of any weight, or a one-way
\* arc of MaxWeight - 1 in either direction
PlacedIds == {"A", "B", "C"}
PlacedPairs == << <<"A", "B">>, <<"A", "C">>, <<"B", "C">> >>
PlacedOptions(pr) ==
    {NoEdge}
    \cup {[from |-> pr[1], to |-> pr[2], weight |-> w] : w \in Weights}
    \cup {[from |-> pr[1], to |-> pr[2], weight |-> MaxWeight - 1, bidirectional |-> FALSE],
          [from |-> pr[2], to |-> pr[1], weight |-> MaxWeight - 1, bidirectional |-> FALSE]}
InitPlaced ==
    \E bx \in Coords, by \in Coords, cx \in Coords, cy \in Coords,
       c1 \in PlacedOptions(PlacedPairs[1]), c2 \in PlacedOptions(PlacedPairs[2]),
       c3 \in PlacedOptions(PlacedPairs[3]),
       s \in PlacedIds, e \in PlacedIds :
        /\ data = [nodes |-> << [bare |-> "A"],
                                [id |-> "B", x |-> bx, y |-> by],
                                [id |-> "C", x |-> cx, y |-> cy] >>,
                   edges |-> EdgeList(<<c1, c2, c3>>, 1)]
        /\ start = s
        /\ end = e

\* family 3, four nodes joined by two-way edges, at most MaxWideEdges of them
\* of total weight at most MaxWideTotal; all nodes at the origin, or "A" moved
\* to (MaxCoord, 0)
WideIds == {"A", "B", "C", "D"}
WidePairs == << <<"A", "B">>, <<"A", "C">>, <<"A", "D">>,
                <<"B", "C">>, <<"B", "D">>, <<"C", "D">> >>
WideOptions(pr) ==
    {NoEdge} \cup {[from |-> pr[1], to |-> pr[2], weight |-> w] : w \in Weights}
WideBounded(c) == EdgeCount(c) <= MaxWideEdges /\ TotalWeight(c, 1) <= MaxWideTotal
InitWide ==
    \E c1 \in WideOptions(WidePairs[1]), c2 \in WideOptions(WidePairs[2]),
       c3 \in WideOptions(WidePairs[3]), c4 \in WideOptions(WidePairs[4]),
       c5 \in WideOptions(WidePairs[5]), c6 \in WideOptions(WidePairs[6]),
       nodes \in {Missing, <<[id |-> "A", x |-> MaxCoord]>>},
       s \in WideIds, e \in WideIds :
        /\ WideBounded(<<c1, c2, c3, c4, c5, c6>>)
        /\ data = GraphObject(nodes, EdgeList(<<c1, c2, c3, c4, c5, c6>>, 1))
        /\ start = s
        /\ end = e

(* ---------------------------- specification ---------------------------- *)
\* the state before anything ran, but for the input and the position
Untouched ==
    /\ raised = None
    /\ adjacency_list = EmptyDict
    /\ node_positions = EmptyDict
    /\ distances = EmptyDict
    /\ priority_queue = <<>>
    /\ visited = {}
    /\ previous = EmptyDict
    /\ nodes_explored = 0
    /\ popped = <<>>
    /\ heuristic = None
    /\ g_score = EmptyDict
    /\ f_score = EmptyDict
    /\ open_set = <<>>
    /\ open_set_hash = {}
    /\ closed_set = {}
    /\ dijkstra_result = Pending
    /\ astar_result = Pending
    /\ calls = <<>>

Init ==
    /\ InitShapes \/ InitPlaced \/ InitWide
    /\ pc = "from_dict"
    /\ Untouched

Next ==
    \/ FromDict
    \/ DijkstraCall
    \/ DijkstraIteration
    \/ DijkstraReturn
    \/ AstarCall
    \/ AstarIteration
    \/ AstarExhausted

Spec == Init /\ [][Next]_vars

\* family 4, the requests followed to their end: three nodes, "C" moved to
\* (MaxCoord, 0), a two-way edge of any weight or none between each pair, from
\* "A" to "B" or "C"
LiveOptions(pr) == WideOptions(pr)
InitLive ==
    /\ \E c1 \in LiveOptions(PlacedPairs[1]),
          c2 \in LiveOptions(PlacedPairs[2]), c3 \in LiveOptions(PlacedPairs[3]),
          e \in {"B", "C"} :
        /\ data = [nodes |-> << [bare |-> "A"], [bare |-> "B"],
                                [id |-> "C", x |-> MaxCoord, y |-> 0] >>,
                   edges |-> EdgeList(<<c1, c2, c3>>, 1)]
        /\ start = "A"
        /\ end = e
    /\ pc = "from_dict"
    /\ Untouched

\* a request runs in one thread from its first statement to its return, so a
\* step that can be taken is taken
SpecLive == InitLive /\ [][Next]_vars /\ WF_vars(Next)

(* ------------------------ calls on a Graph object ---------------------- *)
\* the ids a caller names; "Z" is named only in get_neighbors
GraphIds == {"A", "B", "C"}
TheGraph == [adjacency_list |-> adjacency_list, node_positions |-> node_positions]

\* graph.add_node(id, x, y)
AddNode ==
    /\ pc = "graph"
    /\ Len(calls) < MaxCalls
    /\ \E id \in GraphIds, x \in Coords, y \in Coords :
        LET g == add_node(TheGraph, id, x, y)
        IN  /\ adjacency_list' = g.adjacency_list
            /\ node_positions' = g.node_positions
            /\ calls' = Append(calls, [op |-> "add_node", id |-> id, x |-> x, y |-> y])
    /\ UNCHANGED <<data, start, end, pc, raised, dijkstraVars, previous, nodes_explored,
                   popped, astarVars, dijkstra_result, astar_result>>

\* graph.add_edge(from_node, to_node, weight, bidirectional)
AddEdge ==
    /\ pc = "graph"
    /\ Len(calls) < MaxCalls
    /\ \E from_node \in GraphIds, to_node \in GraphIds, weight \in Weights,
          bidirectional \in BOOLEAN :
        LET g == add_edge(TheGraph, from_node, to_node, weight, bidirectional)
        IN  /\ adjacency_list' = g.adjacency_list
            /\ node_positions' = g.node_positions
            /\ calls' = Append(calls, [op |-> "add_edge", from_node |-> from_node,
                                       to_node |-> to_node, weight |-> weight,
                                       bidirectional |-> bidirectional])
    /\ UNCHANGED <<data, start, end, pc, raised, dijkstraVars, previous, nodes_explored,
                   popped, astarVars, dijkstra_result, astar_result>>

\* graph.get_neighbors(id)
GetNeighbors ==
    /\ pc = "graph"
    /\ Len(calls) < MaxCalls
    /\ \E id \in GraphIds \cup {"Z"} :
        /\ adjacency_list' = AfterGetNeighbors(adjacency_list, id)
        /\ calls' = Append(calls, [op |-> "get_neighbors", id |-> id,
                                   returned |-> get_neighbors(adjacency_list, id)])
    /\ UNCHANGED <<data, start, end, pc, raised, node_positions, dijkstraVars, previous,
                   nodes_explored, popped, astarVars, dijkstra_result, astar_result>>

\* a new Graph and a caller that makes up to MaxCalls calls on it
GraphInit ==
    /\ pc = "graph"
    /\ data = EmptyDict
    /\ start = None
    /\ end = None
    /\ Untouched
GraphNext == AddNode \/ AddEdge \/ GetNeighbors
SpecGraph == GraphInit /\ [][GraphNext]_vars

(* ------------------------- what the claims speak of -------------------- *)
Nodes == DOMAIN adjacency_list
\* the arcs u -> v of weight w stored in the graph
ArcWeights(u, v) ==
    {adjacency_list[u][i][2] : i \in {j \in DOMAIN adjacency_list[u] :
                                        adjacency_list[u][j][1] = v}}
HasArc(u, v) == ArcWeights(u, v) # {}
NonNegative == \A u \in Nodes, v \in Nodes : \A w \in ArcWeights(u, v) : w >= 0
MinOf(S) == CHOOSE m \in S : \A x \in S : m <= x

\* every stored arc, as <<source, target, weight>>
Arcs ==
    UNION {{<<u, adjacency_list[u][i][1], adjacency_list[u][i][2]>> :
                i \in DOMAIN adjacency_list[u]} : u \in Nodes}
Reversed(arcs) == {<<a[2], a[1], a[3]>> : a \in arcs}

\* the least total weight of a directed path from s to each node, by rounds of
\* relaxation over every arc (inf: no path)
RECURSIVE Rounds(_, _, _)
Rounds(arcs, d, k) ==
    IF k = 0 THEN d
    ELSE Rounds(arcs,
                [v \in Nodes |->
                    MinOf({d[v]} \cup {d[a[1]] + a[3] :
                                           a \in {x \in arcs : x[2] = v /\ d[x[1]] < inf}})],
                k - 1)
\* least path weights from s, and least path weights to e
DistFrom(s) == Rounds(Arcs, [v \in Nodes |-> IF v = s THEN 0 ELSE inf], Cardinality(Nodes))
DistTo(e) ==
    Rounds(Reversed(Arcs), [v \in Nodes |-> IF v = e THEN 0 ELSE inf], Cardinality(Nodes))
MinDist(s, e) == DistFrom(s)[e]
Reachable(s, e) == MinDist(s, e) < inf

\* Graph.from_dict returned a graph, and the request went on to the searches
GraphBuilt == pc # "from_dict" /\ from_dict(data).raised = None
BothPresent == start \in Nodes /\ end \in Nodes
\* dijkstra has just ended, and astar has just ended
DijkstraOver == pc = "astar" \/ (pc = "error" /\ heuristic = None)
AstarOver == pc = "done" \/ (pc = "error" /\ heuristic # None)

\* the heuristic astar uses for the tag it was passed, as a float
H(n) == heuristic_fn(heuristic, node_positions, n, end)
\* admissible: h never exceeds the least cost left to end
Admissible ==
    LET left == DistTo(end)
    IN  \A n \in Nodes : left[n] < inf => ~FloatLess(Real(left[n], 0), H(n))
\* the heuristic is 0 at every node
ZeroEverywhere == \A n \in Nodes : FloatEq(H(n), Real(0, 0))
\* consistent: h(u) <= w(u, v) + h(v) on every arc, and h(end) = 0
Consistent ==
    /\ FloatEq(H(end), Real(0, 0))
    /\ \A u \in Nodes, v \in Nodes : \A w \in ArcWeights(u, v) :
           ~FloatLess(Plus(w, H(v)), H(u))

(* -------------------------------- claims ------------------------------- *)
\* C1: on a graph with non-negative weights, with start and end in the graph
\* and end reachable from start, dijkstra returns a PathResult whose distance
\* is the least total weight of a directed path from start to end.
DijkstraDistanceIsMinimum ==
    (DijkstraOver /\ GraphBuilt /\ NonNegative /\ BothPresent)
        => LET least == MinDist(start, end)
           IN  least < inf => /\ dijkstra_result.kind = "PathResult"
                              /\ dijkstra_result.distance = least
\* C1 witness: dijkstra returned a distance that beats a direct arc start -> end
DijkstraBeatsDirectArc ==
    /\ pc = "astar"
    /\ dijkstra_result.kind = "PathResult"
    /\ Len(dijkstra_result.path) >= 3
    /\ BothPresent
    /\ \E w \in ArcWeights(start, end) : dijkstra_result.distance < w

\* C2: with non-negative weights and an admissible heuristic, astar reports
\* the distance dijkstra reports, and returns None exactly when dijkstra does.
AstarDistanceEqualsDijkstra ==
    (pc = "done" /\ GraphBuilt /\ NonNegative /\ BothPresent /\ Admissible)
        => /\ astar_result.kind = dijkstra_result.kind
           /\ astar_result.kind = "PathResult"
                  => astar_result.distance = dijkstra_result.distance

\* C3: astar called with a tag other than "euclidean" or "manhattan" ends in
\* InvalidHeuristic: it returns nothing and performs no search step.
InvalidHeuristicRejected ==
    (heuristic # None /\ heuristic \notin ValidHeuristics)
        => /\ raised = "InvalidHeuristic"
           /\ astar_result = Pending
           /\ pc \notin {"astar_loop", "done"}

\* C4: when start or end is no node of the graph, dijkstra and astar (with a
\* valid heuristic) both return None, nothing is raised, and no table is built
\* or read.
AbsentNodeGivesNone ==
    (pc # "from_dict" /\ (start \notin Nodes \/ end \notin Nodes)
        /\ from_dict(data).raised = None /\ heuristic \in ValidHeuristics \cup {None})
        => /\ raised = None
           /\ pc \in {"dijkstra", "astar", "done"}
           /\ pc \in {"astar", "done"} => dijkstra_result = NoResult
           /\ pc = "done" => astar_result = NoResult
           /\ distances = EmptyDict
           /\ g_score = EmptyDict
           /\ popped = <<>>
\* C4 witness: both searches returned None on a graph that has start, not end
AbsentEndBothNone ==
    /\ pc = "done"
    /\ heuristic \in ValidHeuristics
    /\ start \in Nodes
    /\ end \notin Nodes
    /\ adjacency_list[start] # <<>>
    /\ dijkstra_result = NoResult
    /\ astar_result = NoResult

\* C5: when start and end are both nodes of the graph, dijkstra and astar each
\* return a PathResult if end is reachable from start along directed arcs, and
\* None if it is not.
ResultIffReachable ==
    ((DijkstraOver \/ AstarOver) /\ GraphBuilt /\ BothPresent)
        => LET expected == IF Reachable(start, end) THEN "PathResult" ELSE None
           IN  /\ DijkstraOver => dijkstra_result.kind = expected
               /\ AstarOver => astar_result.kind = expected
\* C5 witness: both searches explored start's component and returned None
UnreachableBothNone ==
    /\ pc = "done"
    /\ BothPresent
    /\ dijkstra_result = NoResult
    /\ astar_result = NoResult
    /\ Cardinality(closed_set) >= 2
    /\ Cardinality(visited) >= 2

\* a path of the graph from start to end whose arcs' weights add up to total
RECURSIVE PathSums(_, _)
PathSums(path, i) ==
    IF i >= Len(path) THEN {0}
    ELSE {w + rest : w \in ArcWeights(path[i], path[i + 1]), rest \in PathSums(path, i + 1)}
ValidPath(path, total) ==
    /\ path # <<>>
    /\ path[1] = start
    /\ path[Len(path)] = end
    /\ \A i \in 1..(Len(path) - 1) : path[i] \in Nodes /\ HasArc(path[i], path[i + 1])
    /\ total \in PathSums(path, 1)

\* C6: a PathResult of dijkstra or astar on a graph with non-negative weights
\* holds a path that starts with start, ends with end and follows arcs of the
\* graph, and a distance that is the sum of the weights of those arcs.
ReturnedPathIsValid ==
    ((DijkstraOver \/ AstarOver) /\ NonNegative)
        => /\ dijkstra_result.kind = "PathResult"
                  => ValidPath(dijkstra_result.path, dijkstra_result.distance)
           /\ astar_result.kind = "PathResult"
                  => ValidPath(astar_result.path, astar_result.distance)
\* C6 witness: astar returned a path of three or more nodes of positive weight
AstarLongPath ==
    /\ pc = "done"
    /\ astar_result.kind = "PathResult"
    /\ Len(astar_result.path) >= 3
    /\ astar_result.distance > 0

\* some node object lacks 'id', or some edge object lacks 'from' or 'to'
Items(key) == Get(data, key, <<>>)
LacksRequiredKey ==
    \/ \E i \in DOMAIN Items("nodes") :
           "bare" \notin DOMAIN Items("nodes")[i] /\ "id" \notin DOMAIN Items("nodes")[i]
    \/ \E i \in DOMAIN Items("edges") :
           "from" \notin DOMAIN Items("edges")[i] \/ "to" \notin DOMAIN Items("edges")[i]

\* C7: Graph.from_dict raises (KeyError) and returns no Graph whenever a node
\* object lacks 'id' or an edge object lacks 'from' or 'to', and no search
\* runs after it.
MalformedInputRejected ==
    (pc # "from_dict" /\ LacksRequiredKey)
        => /\ pc = "error"
           /\ raised = KeyError
           /\ adjacency_list = EmptyDict
           /\ node_positions = EmptyDict
           /\ dijkstra_result = Pending
           /\ astar_result = Pending
           /\ distances = EmptyDict
           /\ g_score = EmptyDict
\* C7 witness: from_dict raised on the second edge, after a node and an edge
\* that were well formed
RejectedAfterPartialBuild ==
    /\ pc = "error"
    /\ raised = KeyError
    /\ Len(Items("nodes")) >= 1
    /\ Len(Items("edges")) = 2
    /\ "from" \in DOMAIN Items("edges")[1] /\ "to" \in DOMAIN Items("edges")[1]
    /\ "from" \notin DOMAIN Items("edges")[2]
    /\ \A i \in DOMAIN Items("nodes") :
           "bare" \in DOMAIN Items("nodes")[i] \/ "id" \in DOMAIN Items("nodes")[i]

\* C8: when the heuristic is 0 at every node, astar and dijkstra on the same
\* graph with non-negative weights and the same start and end report the same
\* nodes_explored.
ZeroHeuristicSameExplored ==
    (pc = "done" /\ NonNegative /\ ZeroEverywhere
        /\ dijkstra_result.kind = "PathResult" /\ astar_result.kind = "PathResult")
        => astar_result.nodes_explored = dijkstra_result.nodes_explored

\* C9: with non-negative weights and a heuristic that is consistent and not 0
\* everywhere, astar's nodes_explored is at most dijkstra's.
InformedExploresNoMore ==
    (pc = "done" /\ NonNegative /\ ~ZeroEverywhere /\ Consistent
        /\ dijkstra_result.kind = "PathResult" /\ astar_result.kind = "PathResult")
        => astar_result.nodes_explored <= dijkstra_result.nodes_explored

\* the order of frontier entries: the key first, then the node id
EntryBefore(e1, e2) ==
    \/ FloatLess(e1[1], e2[1])
    \/ ~FloatLess(e2[1], e1[1]) /\ Rank(e1[2]) < Rank(e2[2])
\* entry is in the frontier and no entry of the frontier comes before it
LeastOf(frontier, entry) ==
    /\ \E i \in DOMAIN frontier : frontier[i] = entry
    /\ \A i \in DOMAIN frontier : ~EntryBefore(frontier[i], entry)

\* C10: in dijkstra and in astar every pop removes the frontier entry that is
\* least by key and then by node id: of entries with the same key the one
\* with the smaller id is popped first.
PopTakesLeastEntry ==
    [][/\ DijkstraIteration => LeastOf(priority_queue, popped')
       /\ AstarIteration => LeastOf(open_set, popped')]_vars
\* C10 witness: a pop has just taken one of two entries with the same key
\* that were in the frontier together
PoppedOnTie ==
    /\ pc \in {"dijkstra_loop", "astar_loop"}
    /\ popped # <<>>
    /\ LET frontier == IF pc = "dijkstra_loop" THEN priority_queue ELSE open_set
       IN  \E i \in DOMAIN frontier :
               /\ FloatEq(frontier[i][1], popped[1])
               /\ Rank(popped[2]) < Rank(frontier[i][2])
               /\ previous[frontier[i][2]] = previous[popped[2]]

(* ------------------------- claims on the Graph ------------------------- *)
\* the number of arcs to v of weight w in the list of u
ArcCount(u, v, w) ==
    Cardinality({i \in DOMAIN adjacency_list[u] : adjacency_list[u][i] = <<v, w>>})
\* the last call the caller made
LastCall == calls[Len(calls)]
OnlyBidirectionalEdges ==
    \A i \in DOMAIN calls : calls[i].op = "add_edge" => calls[i].bidirectional

\* C11: after any sequence of add_node and add_edge calls in which every
\* add_edge is bidirectional the adjacency is symmetric: the list of a holds
\* as many arcs (b, w) as the list of b holds arcs (a, w).
BidirectionalIsSymmetric ==
    OnlyBidirectionalEdges =>
        \A a \in Nodes, b \in Nodes, w \in Weights : ArcCount(a, b, w) = ArcCount(b, a, w)
\* C11 witness: two bidirectional edges were added between the same two
\* distinct nodes, and each list holds both arcs
ParallelBidirectionalEdges ==
    /\ OnlyBidirectionalEdges
    /\ \E a \in Nodes, b \in Nodes, w \in Weights :
        /\ a # b
        /\ ArcCount(a, b, w) = 2 /\ ArcCount(b, a, w) = 2
        /\ Len(adjacency_list[a]) = 2

\* C12: every id that is the source or the target of a stored arc is a key
\* of the adjacency and has a position; adjacency and positions always have
\* the same keys; an endpoint that was missing when add_edge was called is
\* created at position (0, 0).
EndpointsAreNodes ==
    [][/\ DOMAIN adjacency_list' = DOMAIN node_positions'
       /\ \A u \in DOMAIN adjacency_list' : \A i \in DOMAIN adjacency_list'[u] :
              adjacency_list'[u][i][1] \in DOMAIN node_positions'
       /\ (calls' # calls /\ calls'[Len(calls')].op = "add_edge") =>
              \A id \in {calls'[Len(calls')].from_node, calls'[Len(calls')].to_node} :
                  id \notin Nodes => node_positions'[id] = <<0, 0>>]_vars
\* C12 witness: add_edge has just created its missing target at (0, 0) next
\* to a source that was placed elsewhere before
EdgeCreatedTarget ==
    /\ Len(calls) = 2
    /\ calls[1].op = "add_node" /\ calls[2].op = "add_edge"
    /\ calls[2].from_node = calls[1].id /\ calls[2].to_node # calls[1].id
    /\ node_positions[calls[2].from_node] = <<1, 1>>
    /\ node_positions[calls[2].to_node] = <<0, 0>>
    /\ adjacency_list[calls[2].from_node] = <<<<calls[2].to_node, calls[2].weight>>>>

\* C13: add_node sets the position of its node to (x, y) and leaves the arcs
\* of that node, the arcs of every other node and the position of every
\* other node as they were; it removes no arc and reorders none.
AddNodeKeepsArcs ==
    [][(calls' # calls /\ calls'[Len(calls')].op = "add_node") =>
          LET c == calls'[Len(calls')]
          IN  /\ node_positions'[c.id] = <<c.x, c.y>>
              /\ DOMAIN adjacency_list' = Nodes \cup {c.id}
              /\ \A n \in Nodes : adjacency_list'[n] = adjacency_list[n]
              /\ \A n \in DOMAIN node_positions \ {c.id} :
                     node_positions'[n] = node_positions[n]]_vars
\* C13 witness: add_node has just moved a node that has arcs
MovedNodeWithArcs ==
    /\ Len(calls) = 2
    /\ calls[1].op = "add_edge" /\ calls[2].op = "add_node"
    /\ calls[2].id = calls[1].from_node
    /\ node_positions[calls[2].id] = <<1, 1>>
    /\ adjacency_list[calls[2].id] # <<>>

\* C14: dijkstra, astar and get_neighbors only read the Graph: no step of a
\* search and no get_neighbors call changes the adjacency or the positions.
SearchLeavesGraphUnchanged ==
    [][(\/ pc \in {"dijkstra", "dijkstra_loop", "dijkstra_exit", "astar", "astar_loop"}
        \/ calls' # calls /\ calls'[Len(calls')].op = "get_neighbors")
          => /\ adjacency_list' = adjacency_list
             /\ node_positions' = node_positions]_vars
\* C14 witness: both searches have run on a graph with arcs, each expanded
\* more than one node, and the graph is still the one from_dict built
GraphIntactAfterBothSearches ==
    /\ pc = "done"
    /\ dijkstra_result.kind = "PathResult" /\ astar_result.kind = "PathResult"
    /\ dijkstra_result.nodes_explored > 1 /\ astar_result.nodes_explored > 1
    /\ Arcs # {}
    /\ LET r == from_dict(data)
       IN  /\ r.raised = None
           /\ adjacency_list = r.value.adjacency_list
           /\ node_positions = r.value.node_positions

(* -------------------------- claims on the loops ------------------------ *)
\* the frontier holds an entry for node n keyed by key
HasEntry(frontier, key, n) ==
    \E i \in DOMAIN frontier : frontier[i][2] = n /\ FloatEq(frontier[i][1], key)

\* C15: in astar, after a relaxation every open node has a frontier entry
\* keyed by its current fScore (so an improved open neighbour has an entry
\* with the new key), and every expanded node is popped with a key equal to
\* its current fScore, which is the least current fScore of the open nodes.
OpenNodesKeyedByFScore ==
    [][(pc = "astar_loop" /\ popped' # popped) =>
          /\ \A n \in open_set_hash' : HasEntry(open_set', f_score'[n], n)
          /\ popped'[2] \in open_set_hash =>
                /\ FloatEq(popped'[1], f_score[popped'[2]])
                /\ \A n \in open_set_hash :
                       ~FloatLess(f_score[n], f_score[popped'[2]])]_vars

\* no node occurs twice in path
Simple(path) == \A i \in DOMAIN path, j \in DOMAIN path : path[i] = path[j] => i = j
WalkedBack(result) ==
    result.kind = "PathResult" => Simple(result.path) /\ result.path[1] = start

\* C16: on a graph with non-negative weights (every input has weights in
\* 0..MaxWeight) each call of dijkstra and of astar eventually returns: the
\* request comes to its end, no backward walk runs on without reaching
\* start, and the path a walk built holds no node twice.
EveryCallReturns ==
    <>[](/\ pc \in {"done", "error"}
         /\ raised # Diverged
         /\ WalkedBack(dijkstra_result)
         /\ WalkedBack(astar_result))
\* C16 witness: both calls have returned a path of three nodes or more that
\* runs over an arc of weight 0
ReturnedOverZeroArc ==
    /\ pc = "done"
    /\ dijkstra_result.kind = "PathResult" /\ astar_result.kind = "PathResult"
    /\ Len(dijkstra_result.path) >= 3 /\ Len(astar_result.path) >= 3
    /\ \E i \in 1..(Len(dijkstra_result.path) - 1) :
           0 \in ArcWeights(dijkstra_result.path[i], dijkstra_result.path[i + 1])

\* C17: in dijkstra, once the node just finalized is end the search stops at
\* once: that pop is the last one, no arc out of end is relaxed, and the
\* tables stay as they are until the result is built from them.
StopsAtEnd ==
    [][/\ (/\ pc = "dijkstra_loop"
           /\ nodes_explored' = nodes_explored + 1
           /\ popped'[2] = end)
          => /\ pc' = "dijkstra_exit"
             /\ distances' = distances
             /\ previous' = previous
             /\ Len(priority_queue') = Len(priority_queue) - 1
       /\ pc = "dijkstra_exit"
          => /\ pc' \in {"astar", "error"}
             /\ pc' = "astar" => dijkstra_result' # Pending
             /\ UNCHANGED <<dijkstraVars, previous, nodes_explored, popped>>]_vars
\* C17 witness: end has been finalized while entries are still queued and an
\* arc out of end would improve its target
StoppedWithWorkLeft ==
    /\ pc = "dijkstra_exit"
    /\ priority_queue # <<>>
    /\ end \in visited
    /\ \E v \in Nodes : \E w \in ArcWeights(end, v) : distances[end] + w < distances[v]

\* C18: nodes_explored is the number of distinct nodes finalized: the size of
\* visited in dijkstra, the size of the closed set in astar plus one for end
\* once end is popped; a reported value is at least 1 and at most the number
\* of nodes of the graph.
ExploredCountsFinalized ==
    /\ pc \in {"dijkstra_loop", "dijkstra_exit"} => nodes_explored = Cardinality(visited)
    /\ (pc \in {"astar", "astar_loop", "done"} /\ dijkstra_result.kind = "PathResult")
          => /\ dijkstra_result.nodes_explored = Cardinality(visited)
             /\ dijkstra_result.nodes_explored \in 1..Cardinality(Nodes)
    /\ pc = "astar_loop" => nodes_explored = Cardinality(closed_set)
    /\ (pc = "done" /\ astar_result.kind = "PathResult")
          => /\ end \notin closed_set
             /\ astar_result.nodes_explored = Cardinality(closed_set) + 1
             /\ astar_result.nodes_explored \in 1..Cardinality(Nodes)
\* C18 witness: dijkstra has just popped a stale entry of a node finalized
\* before (its key exceeds the node's distance) and did not count it
StaleEntryNotCounted ==
    /\ pc = "dijkstra_loop"
    /\ popped # <<>>
    /\ popped[2] \in visited
    /\ popped[1].a > distances[popped[2]]
    /\ nodes_explored >= 2

\* the nodes that have an entry in the frontier
EntryNodes(frontier) == {frontier[i][2] : i \in DOMAIN frontier}

\* C19: in astar the frontier never holds two entries of one node, a node has
\* an entry exactly when it is in open_set_hash, no node is open and closed
\* at once, a closed node stays closed and is never pushed again, and the
\* skip of a popped entry whose node is not open is never taken: every pop
\* expands its node.
OneEntryPerOpenNode ==
    [][/\ pc' = "astar_loop"
          => /\ Cardinality(EntryNodes(open_set')) = Len(open_set')
             /\ EntryNodes(open_set') = open_set_hash'
             /\ open_set_hash' \cap closed_set' = {}
       /\ (pc = "astar_loop" /\ pc' = "astar_loop") => closed_set \subseteq closed_set'
       /\ (pc = "astar_loop" /\ open_set # <<>>)
          => /\ nodes_explored' = nodes_explored + 1
             /\ popped'[2] \in open_set_hash]_vars
\* C19 witness: an open node was improved after it was pushed (its entry's
\* key exceeds its fScore) and the frontier still holds that one entry of it
ImprovedNodeKeepsOneEntry ==
    /\ pc = "astar_loop"
    /\ \E i \in DOMAIN open_set :
        /\ open_set[i][2] \in open_set_hash
        /\ FloatLess(f_score[open_set[i][2]], open_set[i][1])
        /\ \A j \in DOMAIN open_set : open_set[j][2] = open_set[i][2] => j = i
    /\ closed_set # {}

\* C20: in dijkstra, when a node not yet visited is popped the popped key is
\* that node's current distance (the test of the key against distances never
\* fires), and once a node is visited its distance and its predecessor never
\* change.
PoppedKeyIsDistance ==
    [][/\ (pc = "dijkstra_loop" /\ nodes_explored' = nodes_explored + 1)
          => popped'[1].a = distances[popped'[2]]
       /\ pc \in {"dijkstra_loop", "dijkstra_exit"}
          => \A n \in visited : /\ distances'[n] = distances[n]
                                /\ previous'[n] = previous[n]]_vars
\* C20 witness: a node improved while queued has just been popped through
\* its newer entry, with its older entry still in the queue, and it has an
\* arc of weight 0 to a node visited before
FreshEntryPoppedBeforeStale ==
    /\ pc = "dijkstra_loop"
    /\ popped # <<>>
    /\ popped[2] \in visited
    /\ popped[1].a = distances[popped[2]]
    /\ \E i \in DOMAIN priority_queue :
        /\ priority_queue[i][2] = popped[2]
        /\ priority_queue[i][1].a > popped[1].a
    /\ \E v \in visited \ {popped[2]} : 0 \in ArcWeights(popped[2], v)

====
